---- MODULE Spec2Model ----
(***************************************************************************)
(* Model of the trend and signal engine of the AI quant assistant:         *)
(*   analysis.py      generate_ai_driven_report, _get_daily_trends_generic,*)
(*                     _IntradaySignalGenerator                            *)
(*   llm_analyzer.py  get_llm_score_and_analysis                           *)
(*   ak_utils.py      get_all_etf_spot_realtime,                           *)
(*                     get_all_stock_spot_realtime, the cache they share,  *)
(*                     the retries of the daily-history providers          *)
(*   bot_handler.py   send_long_message                                    *)
(*                                                                         *)
(* A numeric cell of a pandas row is modelled as a sequence: <<>> is a     *)
(* missing cell (the column is absent from the row, or the value is NaN),  *)
(* <<v>> is the number v.  Comparisons with a missing cell are false, as   *)
(* pandas compares NaN.                                                    *)
(***************************************************************************)
EXTENDS Integers, Sequences, FiniteSets, TLC

VARIABLES
    \* --- generate_ai_driven_report ---
    pc,                 \* position of the orchestrator coroutine
    client,             \* llm_analyzer.client is configured (TRUE) or None (FALSE)
    rt_pc,              \* position of the realtime fetch thread (asyncio.to_thread)
    realtime_data_df,   \* result of the realtime fetch
    intraday_signals,   \* result of _IntradaySignalGenerator.generate_signals
    volume_history,     \* _IntradaySignalGenerator.volume_history
    i,                  \* loop index of the scoring loop
    final_report,       \* entries appended by the scoring loop
    report,             \* value returned by generate_ai_driven_report
    scored,             \* history: outcome of every scorer call, in call order
    passes,             \* number of passes started so far
    \* --- _get_daily_trends_generic ---
    d_pc,               \* position of the daily-trend sweep
    d_idx,              \* index into core_pool of the sweep's loop
    analysis_report,    \* entries appended by the sweep
    fetched,            \* history: outcome of every daily-history fetch
    attempt,            \* number of the attempt in flight of the current fetch
    \* --- one instrument's daily analysis, step by step ---
    t_pc,               \* position inside the body of the sweep's loop
    series,             \* the fetch result under analysis
    trend,              \* the entry produced for it
    ta_calls,           \* number of pandas_ta indicator derivations invoked
    \* --- _IntradaySignalGenerator._create_signal_dict on its own ---
    sg_pc,              \* position: "input" or "done"
    sg_series,          \* the snapshot row handed in
    sg_history,         \* the instrument's turnover history at that moment
    sg_signal,          \* the dictionary returned
    \* --- ak_utils: the cache shared by the realtime providers ---
    now,                \* the cache's timer, in seconds
    cache,              \* items of the TTLCache: key -> [value, expires]
    returned,           \* history: what the latest provider call returned
    \* --- ak_utils: the change column computed by the realtime providers ---
    q_pc,               \* position: which providers have run
    quote,              \* the row of the upstream table
    etf_row,            \* the row as get_all_etf_spot_realtime returns it
    stock_row,          \* the row as get_all_stock_spot_realtime returns it
    \* --- bot_handler.send_long_message ---
    s_pc,               \* position inside send_long_message
    s_input,            \* history: the text send_long_message was called with
    s_text,             \* the local `text`
    parts,              \* the local `parts`
    sent                \* history: the arguments of reply_text, in call order

orchVars   == <<pc, client, rt_pc, realtime_data_df, intraday_signals,
                volume_history, i, final_report, report, scored, passes>>
sweepVars  == <<d_pc, d_idx, analysis_report, fetched, attempt>>
trendVars  == <<t_pc, series, trend, ta_calls>>
signalVars == <<sg_pc, sg_series, sg_history, sg_signal>>
cacheVars  == <<now, cache, returned>>
quoteVars  == <<q_pc, quote, etf_row, stock_row>>
sendVars   == <<s_pc, s_input, s_text, parts, sent>>
unitVars   == <<signalVars, cacheVars, quoteVars, sendVars>>
vars       == <<orchVars, sweepVars, trendVars, unitVars>>

-----------------------------------------------------------------------------
(* Bounds of the model *)

PoolSize   == 2     \* instruments in the watch-list
MaxPrice   == 4     \* price / moving-average levels 1..MaxPrice
CrossLevel == 2     \* levels used where both the latest and the previous row vary
MaxMacd    == 1     \* MACD cells range over -MaxMacd..MaxMacd
MaxVolume  == 8     \* latest volume 0..MaxVolume
MaxVolAvg  == 4     \* 60-day volume average 0..MaxVolAvg
MaxPasses  == 2     \* passes of generate_ai_driven_report in a run
MaxSamples == 7     \* samples held by a turnover history handed to _create_signal_dict
MaxJump    == 8     \* turnover added by the latest sample, 0..MaxJump
CacheExpire == 2    \* CACHE_EXPIRE_SECONDS as configured, in seconds
MaxTime    == 5     \* the cache's timer runs over 0..MaxTime
MaxQuote   == 21    \* latest price and previous close 0..MaxQuote
PartLimit  == 3     \* stands for the 4096 characters of one Telegram message
MaxText    == 5     \* characters of the text handed to send_long_message

(* Program constants *)

MinRows      == 60  \* len(result) < 60
MinRowsCross == 2   \* len(result) < 2

-----------------------------------------------------------------------------
(* pandas cells *)

NaN == <<>>

Cell(S) == {NaN} \cup {<<v>> : v \in S}

notna(x) == x # NaN

Gt(a, b) == notna(a) /\ notna(b) /\ a[1] > b[1]

Lt(a, b) == notna(a) /\ notna(b) /\ a[1] < b[1]

Le(a, b) == notna(a) /\ notna(b) /\ a[1] <= b[1]

Ge(a, b) == notna(a) /\ notna(b) /\ a[1] >= b[1]

Zero == <<0>>

-----------------------------------------------------------------------------
(* The watch-list *)

core_pool == [n \in 1..PoolSize |-> [code |-> n, name |-> n]]

Codes == {core_pool[n].code : n \in 1..PoolSize}

-----------------------------------------------------------------------------
(* _get_daily_trends_generic: the body of the loop, for one instrument.    *)
(*                                                                         *)
(* A fetch result is one of                                                *)
(*   [kind |-> "raise", err]   get_daily_history_func raised               *)
(*   [kind |-> "none"]         it returned None                            *)
(*   [kind |-> "table", cols, rows, dateOk, taRaise, latest, prev_latest]  *)
(* where cols is the set of column names, rows the number of rows, dateOk  *)
(* tells whether pd.to_datetime accepts the date column, taRaise is 0 or   *)
(* the number of the pandas_ta call that raises, and latest / prev_latest  *)
(* are the last two rows of the frame once the indicators are appended.    *)

St(dim, key, text) == [dim |-> dim, key |-> key, text |-> text]

Entry(item_info, status, signals) ==
    [code |-> item_info.code, name |-> item_info.name, status |-> status,
     technical_indicators_summary |-> signals]

\* lines 81-84
RenameClose(cols) ==
    IF "close_cn" \notin cols /\ "close" \in cols
       THEN (cols \ {"close"}) \cup {"close_cn"}
    ELSE IF "close_cn" \notin cols /\ "Close" \in cols
       THEN (cols \ {"Close"}) \cup {"close_cn"}
    ELSE cols

\* lines 87-90
RenameVolume(cols) ==
    IF "volume_cn" \notin cols /\ "volume" \in cols
       THEN (cols \ {"volume"}) \cup {"volume_cn"}
    ELSE IF "volume_cn" \notin cols /\ "Volume" \in cols
       THEN (cols \ {"Volume"}) \cup {"volume_cn"}
    ELSE cols

\* lines 93-98: the date column that is converted and becomes the index
DateColumn(cols) ==
    IF "date_cn" \in cols THEN {"date_cn"}
    ELSE IF "date" \in cols THEN {"date"}
    ELSE {}

NormalizedColumns(cols) ==
    LET renamed == RenameVolume(RenameClose(cols))
    IN  renamed \ DateColumn(renamed)

\* as Precheck, but the number of rows is not checked
Precheck_NoLengthCheck(result) ==
    IF result.kind = "raise" THEN [out |-> "raise", err |-> result.err]
    ELSE IF result.kind = "none" THEN [out |-> "empty", err |-> ""]
    ELSE IF result.rows = 0 \/ result.cols = {} THEN [out |-> "empty", err |-> ""]
    ELSE IF DateColumn(RenameVolume(RenameClose(result.cols))) # {} /\ ~result.dateOk
         THEN [out |-> "raise", err |-> "date_error"]
    ELSE IF "close_cn" \notin NormalizedColumns(result.cols)
            \/ "volume_cn" \notin NormalizedColumns(result.cols)
         THEN [out |-> "missing_columns", err |-> ""]
    ELSE [out |-> "ok", err |-> ""]

\* lines 76-109: what happens before any indicator is derived
Precheck(result) ==
    IF result.kind = "raise" THEN [out |-> "raise", err |-> result.err]
    ELSE IF result.kind = "none" THEN [out |-> "empty", err |-> ""]
    ELSE IF result.rows = 0 \/ result.cols = {} THEN [out |-> "empty", err |-> ""]
    ELSE IF DateColumn(RenameVolume(RenameClose(result.cols))) # {} /\ ~result.dateOk
         THEN [out |-> "raise", err |-> "date_error"]
    ELSE IF "close_cn" \notin NormalizedColumns(result.cols)
            \/ "volume_cn" \notin NormalizedColumns(result.cols)
         THEN [out |-> "missing_columns", err |-> ""]
    ELSE IF result.rows < MinRows THEN [out |-> "lt60", err |-> ""]
    ELSE [out |-> "ok", err |-> ""]

SMA(row, n) ==
    CASE n = 5  -> row.SMA_5
      [] n = 10 -> row.SMA_10
      [] n = 20 -> row.SMA_20
      [] n = 60 -> row.SMA_60

ma_lengths == <<5, 10, 20, 60>>

ma_pairs == <<<<5, 10>>, <<10, 20>>, <<20, 60>>>>

\* lines 138-155
StackSignal(latest) ==
    IF \A k \in 1..Len(ma_lengths) : notna(SMA(latest, ma_lengths[k]))
    THEN LET is_bullish_stack == /\ Gt(latest.SMA_5, latest.SMA_10)
                                 /\ Gt(latest.SMA_10, latest.SMA_20)
                                 /\ Gt(latest.SMA_20, latest.SMA_60)
             is_bearish_stack == /\ Lt(latest.SMA_5, latest.SMA_10)
                                 /\ Lt(latest.SMA_10, latest.SMA_20)
                                 /\ Lt(latest.SMA_20, latest.SMA_60)
         IN  IF is_bullish_stack THEN St("stack", <<>>, "bullish")
             ELSE IF is_bearish_stack THEN St("stack", <<>>, "bearish")
             ELSE St("stack", <<>>, "tangled")
    ELSE St("stack", <<>>, "missing")

\* lines 161-169, one turn of the loop
PriceSignal(latest, length) ==
    IF notna(SMA(latest, length))
    THEN IF Gt(latest.close, SMA(latest, length))
         THEN St("price", <<length>>, "above")
         ELSE St("price", <<length>>, "below")
    ELSE St("price", <<length>>, "missing")

\* lines 173-187, one turn of the loop
CrossSignal(latest, prev_latest, s_len, l_len) ==
    LET s == SMA(latest, s_len)
        l == SMA(latest, l_len)
        ps == SMA(prev_latest, s_len)
        pl == SMA(prev_latest, l_len)
    IN  IF notna(s) /\ notna(ps) /\ notna(l) /\ notna(pl)
        THEN IF Gt(s, l) /\ Le(ps, pl) THEN St("cross", <<s_len, l_len>>, "golden_cross")
             ELSE IF Lt(s, l) /\ Ge(ps, pl) THEN St("cross", <<s_len, l_len>>, "death_cross")
             ELSE IF Gt(s, l) THEN St("cross", <<s_len, l_len>>, "above_continues")
             ELSE St("cross", <<s_len, l_len>>, "below_continues")
        ELSE St("cross", <<s_len, l_len>>, "missing")

\* lines 190-198
SlopeSignal(latest, prev_latest) ==
    IF notna(latest.SMA_60) /\ notna(prev_latest.SMA_60)
    THEN IF Gt(latest.SMA_60, prev_latest.SMA_60) THEN St("slope", <<60>>, "up")
         ELSE IF Lt(latest.SMA_60, prev_latest.SMA_60) THEN St("slope", <<60>>, "down")
         ELSE St("slope", <<60>>, "flat")
    ELSE St("slope", <<60>>, "missing")

\* lines 212-220
MacdCrossSignal(latest, prev_latest) ==
    IF Gt(latest.MACD, latest.MACDs) /\ Le(prev_latest.MACD, prev_latest.MACDs)
       THEN St("macd_cross", <<>>, "golden_cross")
    ELSE IF Lt(latest.MACD, latest.MACDs) /\ Ge(prev_latest.MACD, prev_latest.MACDs)
       THEN St("macd_cross", <<>>, "death_cross")
    ELSE IF Gt(latest.MACD, latest.MACDs) THEN St("macd_cross", <<>>, "above_continues")
    ELSE St("macd_cross", <<>>, "below_continues")

\* lines 223-228
MacdZeroSignal(latest) ==
    IF Gt(latest.MACD, Zero) THEN St("macd_zero", <<>>, "above")
    ELSE IF Lt(latest.MACD, Zero) THEN St("macd_zero", <<>>, "below")
    ELSE St("macd_zero", <<>>, "near")

\* lines 231-246
MacdHistSignal(latest, prev_latest) ==
    IF Gt(latest.MACDh, Zero)
    THEN IF Gt(latest.MACDh, prev_latest.MACDh) THEN St("macd_hist", <<>>, "red_growing")
         ELSE IF Lt(latest.MACDh, prev_latest.MACDh) THEN St("macd_hist", <<>>, "red_shrinking")
         ELSE St("macd_hist", <<>>, "red_flat")
    ELSE IF Lt(latest.MACDh, Zero)
    THEN IF Lt(latest.MACDh, prev_latest.MACDh) THEN St("macd_hist", <<>>, "green_growing")
         ELSE IF Gt(latest.MACDh, prev_latest.MACDh) THEN St("macd_hist", <<>>, "green_shrinking")
         ELSE St("macd_hist", <<>>, "green_flat")
    ELSE St("macd_hist", <<>>, "balanced")

\* as MacdSignals, but incomplete MACD data adds no statement
MacdSignals_SilentSkip(latest, prev_latest) ==
    IF /\ notna(latest.MACD) /\ notna(latest.MACDs) /\ notna(latest.MACDh)
       /\ notna(prev_latest.MACD) /\ notna(prev_latest.MACDs) /\ notna(prev_latest.MACDh)
    THEN <<MacdCrossSignal(latest, prev_latest), MacdZeroSignal(latest),
           MacdHistSignal(latest, prev_latest)>>
    ELSE <<>>

\* lines 203-248
MacdSignals(latest, prev_latest) ==
    IF /\ notna(latest.MACD) /\ notna(latest.MACDs) /\ notna(latest.MACDh)
       /\ notna(prev_latest.MACD) /\ notna(prev_latest.MACDs) /\ notna(prev_latest.MACDh)
    THEN <<MacdCrossSignal(latest, prev_latest), MacdZeroSignal(latest),
           MacdHistSignal(latest, prev_latest)>>
    ELSE <<St("macd", <<>>, "missing")>>

\* volume_ratio = volume / average compared with the threshold num/den,
\* for average > 0 and den > 0
RatioGt(volume, average, num, den) == volume * den > num * average

RatioLt(volume, average, num, den) == volume * den < num * average

RatioGe(volume, average, num, den) == volume * den >= num * average

RatioLe(volume, average, num, den) == volume * den <= num * average

\* as VolumeBand, but the outer bands include their thresholds
VolumeBand_Inclusive(volume, average) ==
    IF RatioGe(volume, average, 2, 1) THEN "significantly_expanded"
    ELSE IF RatioLe(volume, average, 1, 2) THEN "significantly_contracted"
    ELSE IF RatioGe(volume, average, 3, 2) THEN "expanded"
    ELSE IF RatioLe(volume, average, 3, 4) THEN "contracted"
    ELSE "normal"

\* lines 259-269
VolumeBand(volume, average) ==
    IF RatioGt(volume, average, 2, 1) THEN "significantly_expanded"
    ELSE IF RatioLt(volume, average, 1, 2) THEN "significantly_contracted"
    ELSE IF RatioGe(volume, average, 3, 2) THEN "expanded"
    ELSE IF RatioLe(volume, average, 3, 4) THEN "contracted"
    ELSE "normal"

\* lines 253-271
VolumeSignal(latest) ==
    IF notna(latest.volume) /\ notna(latest.VOLUME_SMA_60) /\ Gt(latest.VOLUME_SMA_60, Zero)
    THEN St("volume", <<>>, VolumeBand(latest.volume[1], latest.VOLUME_SMA_60[1]))
    ELSE St("volume", <<>>, "missing")

\* lines 133-271
TrendSignals(latest, prev_latest) ==
    <<StackSignal(latest)>>
    \o [k \in 1..Len(ma_lengths) |-> PriceSignal(latest, ma_lengths[k])]
    \o [k \in 1..Len(ma_pairs) |->
            CrossSignal(latest, prev_latest, ma_pairs[k][1], ma_pairs[k][2])]
    \o <<SlopeSignal(latest, prev_latest)>>
    \o MacdSignals(latest, prev_latest)
    \o <<VolumeSignal(latest)>>

\* as BaseStatus, but a close equal to SMA_20 counts as above it
BaseStatus_AtOrAbove(latest) ==
    IF notna(latest.SMA_20) /\ Ge(latest.close, latest.SMA_20) THEN "uptrend" ELSE "downtrend"

\* line 277
BaseStatus(latest) ==
    IF notna(latest.SMA_20) /\ Gt(latest.close, latest.SMA_20) THEN "uptrend" ELSE "downtrend"

\* lines 277-283
TrendStatus(latest) ==
    IF BaseStatus(latest) = "uptrend" /\ notna(latest.SMA_20) /\ notna(latest.SMA_60)
       /\ Gt(latest.SMA_20, latest.SMA_60)
       THEN "strong_uptrend"
    ELSE IF BaseStatus(latest) = "downtrend" /\ notna(latest.SMA_20) /\ notna(latest.SMA_60)
       /\ Lt(latest.SMA_20, latest.SMA_60)
       THEN "strong_downtrend"
    ELSE "sideways"

\* as FailedEntry, but the failure is reported as missing data, without its text
FailedEntry_Silent(item_info, e) ==
    Entry(item_info, "insufficient_data", <<St("info", <<>>, "history_empty")>>)

\* lines 290-292: the entry of an instrument whose processing raised e
FailedEntry(item_info, e) ==
    Entry(item_info, "analysis_failed", <<St("error", <<>>, e)>>)

\* lines 78-109: the entry of an instrument whose series is rejected
RejectedEntry(item_info, out) ==
    CASE out = "empty" ->
            Entry(item_info, "insufficient_data", <<St("info", <<>>, "history_empty")>>)
      [] out = "missing_columns" ->
            Entry(item_info, "missing_columns", <<St("info", <<>>, "columns_missing")>>)
      [] out = "lt60" ->
            Entry(item_info, "insufficient_data_lt60", <<St("info", <<>>, "fewer_than_60_days")>>)
      [] out = "lt2" ->
            Entry(item_info, "insufficient_data_lt2", <<St("info", <<>>, "fewer_than_2_days")>>)

\* lines 124-289: what follows the derivation of the indicators
AnalyzedEntry(item_info, result) ==
    IF result.rows < MinRowsCross THEN RejectedEntry(item_info, "lt2")
    ELSE Entry(item_info, TrendStatus(result.latest),
               TrendSignals(result.latest, result.prev_latest))

\* lines 76-292: the entry appended for one instrument
DailyTrendEntry(item_info, result) ==
    LET pre == Precheck(result)
    IN  IF pre.out = "raise" THEN FailedEntry(item_info, pre.err)
        ELSE IF pre.out # "ok" THEN RejectedEntry(item_info, pre.out)
        ELSE IF result.taRaise # 0 THEN FailedEntry(item_info, "ta_error")
        ELSE AnalyzedEntry(item_info, result)

\* the `continue` statements of lines 80, 105, 109 and 128 skip line 293
SkipsPause(result) ==
    \/ Precheck(result).out \in {"empty", "missing_columns", "lt60"}
    \/ Precheck(result).out = "ok" /\ result.taRaise = 0 /\ result.rows < MinRowsCross

\* lines 112-122: the pandas_ta calls made for one instrument
TaSteps == 6

TaCallsMade(result) ==
    IF Precheck(result).out # "ok" THEN 0
    ELSE IF result.taRaise # 0 THEN result.taRaise
    ELSE TaSteps

-----------------------------------------------------------------------------
(* Fetch results the daily-history provider can produce *)

Row(close, volume, s5, s10, s20, s60, m, ms, mh, va) ==
    [close |-> close, volume |-> volume,
     SMA_5 |-> s5, SMA_10 |-> s10, SMA_20 |-> s20, SMA_60 |-> s60,
     MACD |-> m, MACDs |-> ms, MACDh |-> mh, VOLUME_SMA_60 |-> va]

Table(cols, rows, dateOk, taRaise, latest, prev_latest) ==
    [kind |-> "table", cols |-> cols, rows |-> rows, dateOk |-> dateOk,
     taRaise |-> taRaise, latest |-> latest, prev_latest |-> prev_latest]

NoneResult == [kind |-> "none"]

RaiseResult(e) == [kind |-> "raise", err |-> e]

StdCols == {"date_cn", "close_cn", "volume_cn"}

ColumnSets ==
    { StdCols, {"date", "close", "volume"}, {"Close", "Volume"},
      {"date_cn", "close_cn"}, {"date", "Volume"}, {"close", "close_cn", "volume"}, {} }

RowCounts == {0, 1, MinRows - 1, MinRows, MinRows + 1}

FullRows == MinRows + 1

BaseRow == Row(<<2>>, <<2>>, <<2>>, <<2>>, <<2>>, <<2>>, <<0>>, <<0>>, <<0>>, <<2>>)

\* a cell of the previous row, d away from the latest one
Shift(cell, d) == IF cell = NaN \/ d = NaN THEN NaN ELSE <<cell[1] + d[1]>>

\* the shape of the table varies, the rows are fixed
ShapeInput(r) ==
    \E cols \in ColumnSets, rows \in RowCounts, dateOk \in BOOLEAN, taRaise \in 0..TaSteps :
        r = Table(cols, rows, dateOk, taRaise, BaseRow, BaseRow)

\* the latest close and moving averages vary, the previous row moves with them
StackInput(r) ==
    \E c \in Cell(1..MaxPrice), s5 \in Cell(1..MaxPrice), s10 \in Cell(1..MaxPrice),
       s20 \in Cell(1..MaxPrice), s60 \in Cell(1..MaxPrice), d \in Cell({0 - 1, 0, 1}) :
        r = Table(StdCols, FullRows, TRUE, 0,
                  Row(c, <<2>>, s5, s10, s20, s60, <<0>>, <<0>>, <<0>>, <<2>>),
                  Row(c, <<2>>, Shift(s5, d), Shift(s10, d), Shift(s20, d), Shift(s60, d),
                      <<0>>, <<0>>, <<0>>, <<2>>))

\* the moving averages of both rows vary independently
CrossInput(r) ==
    \E s5 \in Cell(1..CrossLevel), s10 \in Cell(1..CrossLevel),
       s20 \in Cell(1..CrossLevel), s60 \in Cell(1..CrossLevel),
       p5 \in Cell(1..CrossLevel), p10 \in Cell(1..CrossLevel),
       p20 \in Cell(1..CrossLevel), p60 \in Cell(1..CrossLevel) :
        r = Table(StdCols, FullRows, TRUE, 0,
                  Row(<<CrossLevel>>, <<2>>, s5, s10, s20, s60, <<0>>, <<0>>, <<0>>, <<2>>),
                  Row(<<CrossLevel>>, <<2>>, p5, p10, p20, p60, <<0>>, <<0>>, <<0>>, <<2>>))

\* the MACD cells of both rows vary, the previous histogram one step further
MacdInput(r) ==
    \E m \in Cell((0 - MaxMacd)..MaxMacd), ms \in Cell((0 - MaxMacd)..MaxMacd),
       mh \in Cell((0 - MaxMacd)..MaxMacd), pm \in Cell((0 - MaxMacd)..MaxMacd),
       pms \in Cell((0 - MaxMacd)..MaxMacd), pmh \in Cell((0 - MaxMacd - 1)..(MaxMacd + 1)) :
        r = Table(StdCols, FullRows, TRUE, 0,
                  Row(<<2>>, <<2>>, <<2>>, <<2>>, <<2>>, <<2>>, m, ms, mh, <<2>>),
                  Row(<<2>>, <<2>>, <<2>>, <<2>>, <<2>>, <<2>>, pm, pms, pmh, <<2>>))

\* the latest volume and its 60-day average vary
VolumeInput(r) ==
    \E v \in Cell(0..MaxVolume), va \in Cell(0..MaxVolAvg) :
        r = Table(StdCols, FullRows, TRUE, 0,
                  Row(<<2>>, v, <<2>>, <<2>>, <<2>>, <<2>>, <<0>>, <<0>>, <<0>>, va),
                  BaseRow)

Errors == {"fetch_error"}

TrendInput(r) ==
    \/ r = NoneResult
    \/ \E e \in Errors : r = RaiseResult(e)
    \/ ShapeInput(r)
    \/ StackInput(r)
    \/ CrossInput(r)
    \/ MacdInput(r)
    \/ VolumeInput(r)

NoItem == [code |-> 0, name |-> 0]

NoEntry == Entry(NoItem, "none", <<>>)

-----------------------------------------------------------------------------
(* One instrument's daily analysis, step by step *)

\* what the parts of the model that are not running hold
OrchIdle ==
    /\ pc = "idle" /\ client = TRUE /\ rt_pc = "idle" /\ realtime_data_df = NoneResult
    /\ intraday_signals = <<>> /\ volume_history = <<>> /\ i = 0
    /\ final_report = <<>> /\ report = <<>> /\ scored = <<>> /\ passes = 0

SweepIdle ==
    /\ d_pc = "idle" /\ d_idx = 0 /\ analysis_report = <<>> /\ fetched = <<>>
    /\ attempt = 0

TrendIdle ==
    /\ t_pc = "idle" /\ series = NoneResult /\ trend = NoEntry /\ ta_calls = 0

SignalIdle ==
    /\ sg_pc = "idle" /\ sg_series = <<>> /\ sg_history = <<>> /\ sg_signal = <<>>

CacheIdle ==
    /\ now = 0 /\ cache = <<>> /\ returned = <<>>

QuoteIdle ==
    /\ q_pc = "idle" /\ quote = <<>> /\ etf_row = <<>> /\ stock_row = <<>>

SendIdle ==
    /\ s_pc = "idle" /\ s_input = <<>> /\ s_text = <<>> /\ parts = <<>> /\ sent = <<>>

TrendInit ==
    /\ OrchIdle /\ SweepIdle
    /\ SignalIdle /\ CacheIdle /\ QuoteIdle /\ SendIdle
    /\ t_pc = "fetched"
    /\ TrendInput(series)
    /\ trend = NoEntry
    /\ ta_calls = 0

\* lines 76-109
CheckSeries ==
    /\ t_pc = "fetched"
    /\ LET pre == Precheck(series)
       IN  IF pre.out = "raise"
           THEN /\ trend' = FailedEntry(core_pool[1], pre.err)
                /\ t_pc' = "done"
           ELSE IF pre.out # "ok"
           THEN /\ trend' = RejectedEntry(core_pool[1], pre.out)
                /\ t_pc' = "done"
           ELSE /\ trend' = trend
                /\ t_pc' = "derive"
    /\ UNCHANGED <<unitVars, series, ta_calls, orchVars, sweepVars>>

\* lines 112-122
DeriveIndicators ==
    /\ t_pc = "derive"
    /\ ta_calls' = TaCallsMade(series)
    /\ IF series.taRaise # 0
       THEN /\ trend' = FailedEntry(core_pool[1], "ta_error")
            /\ t_pc' = "done"
       ELSE /\ trend' = trend
            /\ t_pc' = "extract"
    /\ UNCHANGED <<unitVars, series, orchVars, sweepVars>>

\* lines 124-289
ExtractSignals ==
    /\ t_pc = "extract"
    /\ trend' = AnalyzedEntry(core_pool[1], series)
    /\ t_pc' = "done"
    /\ UNCHANGED <<unitVars, series, ta_calls, orchVars, sweepVars>>

TrendNext == CheckSeries \/ DeriveIndicators \/ ExtractSignals

SpecTrend == TrendInit /\ [][TrendNext]_vars

-----------------------------------------------------------------------------
(* llm_analyzer.get_llm_score_and_analysis                                 *)
(*                                                                         *)
(* What the call meets on its way:                                         *)
(*   [kind |-> "prompt_error"]  building prompt_data raises (lines 27-32)  *)
(*   [kind |-> "api_error"]     the request or json.loads raises           *)
(*   [kind |-> "empty"]         the message content is empty               *)
(*   [kind |-> "bad_format"]    the JSON is neither an object nor a        *)
(*                              non-empty list holding one                 *)
(*   [kind |-> "json", score, comment]  an object; score is <<>> when the  *)
(*                              'score' key is absent or not a number      *)
(* The result is [raised, ai_score, ai_comment]; ai_score <<>> is None.    *)

DefaultScore == 50

ScoreResult(score, comment) == [raised |-> FALSE, ai_score |-> score, ai_comment |-> comment]

ScoreRaised == [raised |-> TRUE, ai_score |-> NaN, ai_comment |-> ""]

get_llm_score_and_analysis(has_client, response) ==
    IF ~has_client THEN ScoreResult(NaN, "llm_not_configured")
    ELSE IF response.kind = "prompt_error" THEN ScoreRaised
    ELSE IF response.kind = "api_error" THEN ScoreResult(NaN, "llm_service_error")
    ELSE IF response.kind = "empty" THEN ScoreResult(<<DefaultScore>>, "no_valid_analysis")
    ELSE IF response.kind = "json"
         THEN ScoreResult(IF response.score = NaN THEN <<DefaultScore>> ELSE response.score,
                          response.comment)
    ELSE ScoreResult(NaN, "llm_format_error")

LLMScores == {0, DefaultScore}

LLMResponses ==
    {[kind |-> k] : k \in {"prompt_error", "api_error", "empty", "bad_format"}}
    \cup {[kind |-> "json", score |-> sc, comment |-> "llm_comment"] : sc \in Cell(LLMScores)}

-----------------------------------------------------------------------------
(* _IntradaySignalGenerator *)

HistoryMaxLen == 20

SpikeMinSamples == 5

\* the sharp-move threshold 2.5, in tenths of a percent
SharpMove == 25

\* as NewVolumeHistory, but the histories of the generator before live on
NewVolumeHistory_Kept ==
    IF volume_history = <<>> THEN [c \in Codes |-> <<>>] ELSE volume_history

\* line 300
NewVolumeHistory == [c \in Codes |-> <<>>]

\* deque(maxlen=20).append
DequeAppend(h, x) == IF Len(h) = HistoryMaxLen THEN Append(Tail(h), x) ELSE Append(h, x)

\* lines 320-325
VolumeSpike(history) ==
    /\ Len(history) > SpikeMinSamples
    /\ LET n == Len(history)
           current_interval_volume == history[n] - history[n - 1]
           total == history[n] - history[1]
       IN  total > 0 /\ current_interval_volume * (n - 1) > total * 3

\* as create_signal_dict, but a move of exactly 2.5 counts as sharp
create_signal_dict_AtThreshold(item_series, item_info, history) ==
    LET points == (IF item_series.change >= SharpMove THEN <<"sharp_gain">> ELSE <<>>)
                  \o (IF item_series.change =< 0 - SharpMove THEN <<"sharp_loss">> ELSE <<>>)
                  \o (IF VolumeSpike(history) THEN <<"volume_spike">> ELSE <<>>)
    IN  [code |-> item_series.code, name |-> item_info.name, change |-> item_series.change,
         analysis_points |-> IF points # <<>> THEN points ELSE <<"stable">>]

\* lines 312-333
create_signal_dict(item_series, item_info, history) ==
    LET points == (IF item_series.change > SharpMove THEN <<"sharp_gain">> ELSE <<>>)
                  \o (IF item_series.change < 0 - SharpMove THEN <<"sharp_loss">> ELSE <<>>)
                  \o (IF VolumeSpike(history) THEN <<"volume_spike">> ELSE <<>>)
    IN  [code |-> item_series.code, name |-> item_info.name, change |-> item_series.change,
         analysis_points |-> IF points # <<>> THEN points ELSE <<"stable">>]

\* as generate_signals_from, but an instrument without a row ends the loop
RECURSIVE generate_signals_from_break(_, _, _, _)
generate_signals_from_break(k, df, results, history) ==
    IF k > PoolSize THEN <<results, history>>
    ELSE LET item == core_pool[k]
         IN  IF item.code \in DOMAIN df.rows
             THEN LET current_data == df.rows[item.code]
                      h == [history EXCEPT
                               ![item.code] = DequeAppend(@, current_data.amount)]
                  IN  generate_signals_from_break(k + 1, df,
                          Append(results, create_signal_dict(current_data, item, h[item.code])),
                          h)
             ELSE <<results, history>>

\* lines 302-310, the loop over item_list[k..]: the pair <<results, volume_history>>
RECURSIVE generate_signals_from(_, _, _, _)
generate_signals_from(k, df, results, history) ==
    IF k > PoolSize THEN <<results, history>>
    ELSE LET item == core_pool[k]
         IN  IF item.code \in DOMAIN df.rows
             THEN LET current_data == df.rows[item.code]
                      h == [history EXCEPT
                               ![item.code] = DequeAppend(@, current_data.amount)]
                  IN  generate_signals_from(k + 1, df,
                          Append(results, create_signal_dict(current_data, item, h[item.code])),
                          h)
             ELSE generate_signals_from(k + 1, df, results, history)

generate_signals(df, history) == generate_signals_from(1, df, <<>>, history)

\* realtime snapshots: a table holds one row for each code of a set
SnapshotRow(c, change, amount) == [code |-> c, change |-> change, amount |-> amount]

RtChanges == {0, SharpMove + 1}

RtAmounts == {10}

Snapshots ==
    UNION { { [kind |-> "table", rows |-> [c \in present |-> SnapshotRow(c, chg[c], amt)]] :
                chg \in [present -> RtChanges], amt \in RtAmounts } : present \in SUBSET Codes }

-----------------------------------------------------------------------------
(* generate_ai_driven_report *)

Sentinel == [code |-> 0, name |-> 0, ai_score |-> 0, ai_comment |-> "realtime_fetch_failed"]

UnknownTrend == [status |-> "unknown"]

\* line 35 and line 47: the last entry of the list with that code, or the default
DailyTrendOf(daily_trends_list, code) ==
    LET at == {k \in 1..Len(daily_trends_list) : daily_trends_list[k].code = code}
    IN  IF at = {} THEN UnknownTrend
        ELSE daily_trends_list[CHOOSE k \in at : \A m \in at : m <= k]

\* as ReportEntry, but a missing score becomes the neutral default
ReportEntry_Neutral(signal, outcome) ==
    [code |-> signal.code, name |-> signal.name, change |-> signal.change,
     analysis_points |-> signal.analysis_points,
     ai_score |-> IF ~outcome.raised /\ outcome.ai_score # NaN
                  THEN outcome.ai_score[1] ELSE DefaultScore,
     ai_comment |-> IF outcome.raised THEN "unknown_error" ELSE outcome.ai_comment]

\* lines 50-57
ReportEntry(signal, outcome) ==
    IF outcome.raised
    THEN [code |-> signal.code, name |-> signal.name, change |-> signal.change,
          analysis_points |-> signal.analysis_points,
          ai_score |-> 0, ai_comment |-> "unknown_error"]
    ELSE [code |-> signal.code, name |-> signal.name, change |-> signal.change,
          analysis_points |-> signal.analysis_points,
          ai_score |-> IF outcome.ai_score # NaN THEN outcome.ai_score[1] ELSE 0,
          ai_comment |-> outcome.ai_comment]

\* as InsertDesc, but x goes ahead of the elements with its own key
InsertDesc_Unstable(s, x) ==
    LET ahead == {k \in 1..Len(s) : s[k].ai_score > x.ai_score}
        n == IF ahead = {} THEN 0 ELSE CHOOSE k \in ahead : \A m \in ahead : m <= k
    IN  SubSeq(s, 1, n) \o <<x>> \o SubSeq(s, n + 1, Len(s))

\* sorted(..., key=ai_score, reverse=True): x goes behind every element whose
\* key is at least its own
InsertDesc(s, x) ==
    LET ahead == {k \in 1..Len(s) : s[k].ai_score >= x.ai_score}
        n == IF ahead = {} THEN 0 ELSE CHOOSE k \in ahead : \A m \in ahead : m <= k
    IN  SubSeq(s, 1, n) \o <<x>> \o SubSeq(s, n + 1, Len(s))

RECURSIVE SortedDescFrom(_, _, _)
SortedDescFrom(s, k, acc) ==
    IF k > Len(s) THEN acc ELSE SortedDescFrom(s, k + 1, InsertDesc(acc, s[k]))

\* line 61
SortedByScore(s) == SortedDescFrom(s, 1, <<>>)

-----------------------------------------------------------------------------
(* _get_daily_trends_generic: the sweep over the watch-list *)

FullTable(latest, prev_latest) == Table(StdCols, FullRows, TRUE, 0, latest, prev_latest)

RisingRow == Row(<<3>>, <<2>>, <<3>>, <<3>>, <<2>>, <<1>>, <<1>>, <<0>>, <<1>>, <<2>>)

\* the results drawn in a pass of the orchestrator
PassResults ==
    { NoneResult, RaiseResult("fetch_error"), FullTable(BaseRow, BaseRow) }

\* the results drawn when the sweep is run on its own
SweepResults ==
    PassResults \cup
    { Table(StdCols, 0, TRUE, 0, BaseRow, BaseRow),
      Table({"date_cn", "close_cn"}, FullRows, TRUE, 0, BaseRow, BaseRow),
      Table(StdCols, MinRows - 1, TRUE, 0, BaseRow, BaseRow),
      Table(StdCols, FullRows, FALSE, 0, BaseRow, BaseRow),
      Table(StdCols, FullRows, TRUE, 1, BaseRow, BaseRow),
      FullTable(RisingRow, BaseRow) }

\* ak_utils.py lines 63 and 98: stop_after_attempt(3)
StopAfterAttempt == 3

\* line 77: the call of get_daily_history_func is started; the provider makes
\* its first attempt
DailyCall ==
    /\ d_pc = "call"
    /\ d_pc' = "await"
    /\ attempt' = 1
    /\ UNCHANGED <<unitVars, d_idx, analysis_report, fetched, orchVars, trendVars>>

\* lines 78-293 for what the call of line 77 returned or raised: the
\* instrument is analysed; a `continue` goes to the next instrument, anything
\* else to line 293
Deliver(result) ==
    /\ fetched' = Append(fetched, result)
    /\ analysis_report' = Append(analysis_report, DailyTrendEntry(core_pool[d_idx], result))
    /\ ta_calls' = ta_calls + TaCallsMade(result)
    /\ attempt' = 0
    /\ IF SkipsPause(result)
       THEN /\ d_idx' = d_idx + 1
            /\ d_pc' = IF d_idx + 1 > PoolSize THEN "done" ELSE "call"
       ELSE /\ d_idx' = d_idx
            /\ d_pc' = "sleep"

\* ak_utils.py lines 71-73 and 106-109: the attempt returns what the upstream
\* call returned, and so does the provider
DailyReturn(Results) ==
    /\ d_pc = "await"
    /\ \E result \in {r \in Results : r.kind # "raise"} : Deliver(result)
    /\ UNCHANGED <<unitVars, orchVars, t_pc, series, trend>>

\* ak_utils.py lines 74-77 and 110-113: the upstream call raises, the handler
\* logs and raises again
DailyAttemptFails ==
    /\ d_pc = "await"
    /\ d_pc' = "failed"
    /\ UNCHANGED <<unitVars, d_idx, analysis_report, fetched, attempt, orchVars, trendVars>>

\* @retry, wait=wait_fixed(2): after the wait the next attempt is made
DailyRetry ==
    /\ d_pc = "failed"
    /\ attempt < StopAfterAttempt
    /\ attempt' = attempt + 1
    /\ d_pc' = "await"
    /\ UNCHANGED <<unitVars, d_idx, analysis_report, fetched, orchVars, trendVars>>

\* @retry, stop=stop_after_attempt(3) with neither reraise nor
\* retry_error_callback: the provider raises RetryError
DailyGiveUp(Results) ==
    /\ d_pc = "failed"
    /\ attempt >= StopAfterAttempt
    /\ \E result \in {r \in Results : r.kind = "raise"} : Deliver(result)
    /\ UNCHANGED <<unitVars, orchVars, t_pc, series, trend>>

\* line 293, then the next turn of the loop or line 294
DailySleep ==
    /\ d_pc = "sleep"
    /\ d_idx' = d_idx + 1
    /\ d_pc' = IF d_idx + 1 > PoolSize THEN "done" ELSE "call"
    /\ UNCHANGED <<unitVars, analysis_report, fetched, attempt, orchVars, trendVars>>

SweepInit ==
    /\ OrchIdle /\ TrendIdle
    /\ SignalIdle /\ CacheIdle /\ QuoteIdle /\ SendIdle
    /\ d_pc = "call" /\ d_idx = 1 /\ analysis_report = <<>> /\ fetched = <<>>
    /\ attempt = 0

SweepNext ==
    \/ DailyCall
    \/ DailyReturn(SweepResults)
    \/ DailyAttemptFails
    \/ DailyRetry
    \/ DailyGiveUp(SweepResults)
    \/ DailySleep

SpecSweep == SweepInit /\ [][SweepNext]_vars

-----------------------------------------------------------------------------
(* generate_ai_driven_report: one pass *)

Init ==
    /\ pc = "start"
    /\ client \in BOOLEAN
    /\ rt_pc = "idle"
    /\ realtime_data_df = NoneResult
    /\ intraday_signals = <<>>
    /\ volume_history = <<>>
    /\ i = 0
    /\ final_report = <<>>
    /\ report = <<>>
    /\ scored = <<>>
    /\ passes = 0
    /\ SweepIdle
    /\ TrendIdle
    /\ SignalIdle /\ CacheIdle /\ QuoteIdle /\ SendIdle

\* as Start, but the sweep is given up at once and leaves no result
Start_SweepDropped ==
    /\ pc = "start"
    /\ pc' = "gather"
    /\ rt_pc' = "running"
    /\ d_pc' = "done"
    /\ d_idx' = d_idx
    /\ passes' = passes + 1
    /\ UNCHANGED <<unitVars, client, realtime_data_df, intraday_signals, volume_history, i,
                   final_report, report, scored, analysis_report, fetched, attempt,
                   trendVars>>

\* lines 27-30: both units of work are started
Start ==
    /\ pc = "start"
    /\ pc' = "gather"
    /\ rt_pc' = "running"
    /\ d_pc' = "call"
    /\ d_idx' = 1
    /\ passes' = passes + 1
    /\ UNCHANGED <<unitVars, client, realtime_data_df, intraday_signals, volume_history, i,
                   final_report, report, scored, analysis_report, fetched, attempt,
                   trendVars>>

\* line 27: the thread running get_realtime_data_func finishes
RealtimeFetch ==
    /\ rt_pc = "running"
    /\ realtime_data_df' \in {NoneResult} \cup Snapshots
    /\ rt_pc' = "done"
    /\ UNCHANGED <<unitVars, passes, pc, client, intraday_signals, volume_history, i, final_report, report,
                   scored, sweepVars, trendVars>>

\* as Gather, but the sweep is not awaited
Gather_NoJoin ==
    /\ pc = "gather"
    /\ rt_pc = "done"
    /\ IF realtime_data_df.kind = "none"
       THEN /\ report' = <<Sentinel>>
            /\ pc' = "done"
            /\ UNCHANGED <<intraday_signals, volume_history, i, final_report>>
       ELSE LET generated == generate_signals(realtime_data_df, NewVolumeHistory)
            IN  /\ intraday_signals' = generated[1]
                /\ volume_history' = generated[2]
                /\ final_report' = <<>>
                /\ i' = 1
                /\ pc' = "score"
                /\ report' = report
    /\ UNCHANGED <<unitVars, passes, client, rt_pc, realtime_data_df, scored, sweepVars, trendVars>>

\* lines 30-41: both results are in
Gather ==
    /\ pc = "gather"
    /\ rt_pc = "done"
    /\ d_pc = "done"
    /\ IF realtime_data_df.kind = "none"
       THEN /\ report' = <<Sentinel>>
            /\ pc' = "done"
            /\ UNCHANGED <<intraday_signals, volume_history, i, final_report>>
       ELSE LET generated == generate_signals(realtime_data_df, NewVolumeHistory)
            IN  /\ intraday_signals' = generated[1]
                /\ volume_history' = generated[2]
                /\ final_report' = <<>>
                /\ i' = 1
                /\ pc' = "score"
                /\ report' = report
    /\ UNCHANGED <<unitVars, passes, client, rt_pc, realtime_data_df, scored, sweepVars, trendVars>>

\* lines 42-49: the scorer is called for the next signal
ScoreCall ==
    /\ pc = "score"
    /\ i <= Len(intraday_signals)
    /\ pc' = "await_score"
    /\ UNCHANGED <<unitVars, passes, client, rt_pc, realtime_data_df, intraday_signals, volume_history, i,
                   final_report, report, scored, sweepVars, trendVars>>

\* lines 49-57: the scorer returns or raises and the entry is appended
ScoreReturn ==
    /\ pc = "await_score"
    /\ \E response \in LLMResponses :
        LET signal == intraday_signals[i]
            daily_trend == DailyTrendOf(analysis_report, signal.code)
            outcome == get_llm_score_and_analysis(client, response)
        IN  /\ final_report' = Append(final_report, ReportEntry(signal, outcome))
            /\ scored' = Append(scored, [code |-> signal.code,
                                         status |-> daily_trend.status,
                                         outcome |-> outcome])
    /\ pc' = "sleep"
    /\ UNCHANGED <<unitVars, passes, client, rt_pc, realtime_data_df, intraday_signals, volume_history, i,
                   report, sweepVars, trendVars>>

\* line 59
ScoreSleep ==
    /\ pc = "sleep"
    /\ i' = i + 1
    /\ pc' = "score"
    /\ UNCHANGED <<unitVars, passes, client, rt_pc, realtime_data_df, intraday_signals, volume_history,
                   final_report, report, scored, sweepVars, trendVars>>

\* line 61
Return ==
    /\ pc = "score"
    /\ i > Len(intraday_signals)
    /\ report' = SortedByScore(final_report)
    /\ pc' = "done"
    /\ UNCHANGED <<unitVars, passes, client, rt_pc, realtime_data_df, intraday_signals, volume_history, i,
                   final_report, scored, sweepVars, trendVars>>

\* bot_handler.py lines 48-57: the command arrives again and the handler calls
\* generate_ai_driven_report anew; volume_history still holds what the
\* generator of the pass before was left with
NewPass ==
    /\ pc = "done"
    /\ passes < MaxPasses
    /\ pc' = "start"
    /\ rt_pc' = "idle"
    /\ realtime_data_df' = NoneResult
    /\ intraday_signals' = <<>>
    /\ i' = 0
    /\ final_report' = <<>>
    /\ report' = <<>>
    /\ scored' = <<>>
    /\ d_pc' = "idle"
    /\ d_idx' = 0
    /\ analysis_report' = <<>>
    /\ fetched' = <<>>
    /\ ta_calls' = 0
    /\ UNCHANGED <<unitVars, passes, client, volume_history, attempt, t_pc, series, trend>>

Next ==
    \/ Start
    \/ RealtimeFetch
    \/ DailyCall
    \/ DailyReturn(PassResults)
    \/ DailyAttemptFails
    \/ DailyRetry
    \/ DailyGiveUp(PassResults)
    \/ DailySleep
    \/ Gather
    \/ ScoreCall
    \/ ScoreReturn
    \/ ScoreSleep
    \/ Return
    \/ NewPass

Spec == Init /\ [][Next]_vars

-----------------------------------------------------------------------------
(* Properties of a pass of generate_ai_driven_report and of the sweep *)

PassDone == pc = "done" /\ realtime_data_df.kind = "table"

PassFailed == pc = "done" /\ realtime_data_df.kind = "none"

EntriesOf(s, c) == {k \in 1..Len(s) : s[k].code = c}

PoolIndex(c) == CHOOSE n \in 1..PoolSize : core_pool[n].code = c

\* C1, as stated: when the realtime fetch returned a table, the report holds
\* every watch-list instrument exactly once.
C1_EveryInstrumentOnce ==
    PassDone =>
        /\ Len(report) = PoolSize
        /\ \A c \in Codes : Cardinality(EntriesOf(report, c)) = 1

\* C1, amended: when the realtime fetch returned a table, the report holds
\* exactly one entry for each watch-list instrument that has a row in the
\* table and none for an instrument without a row, whatever the outcome of
\* the instrument's daily-history fetch, daily analysis or scoring.
C1_PresentInstrumentsOnce ==
    PassDone =>
        /\ \A c \in Codes :
              Cardinality(EntriesOf(report, c)) =
                  IF c \in DOMAIN realtime_data_df.rows THEN 1 ELSE 0
        /\ Len(report) = Cardinality(DOMAIN realtime_data_df.rows)
        /\ \A k \in 1..Len(report) : report[k].code \in Codes

\* a pass in which an instrument without a row precedes one with a row, a
\* daily fetch raised and the scorer raised
C1_Witness ==
    /\ PassDone
    /\ \E c \in Codes, e \in Codes :
          /\ PoolIndex(c) < PoolIndex(e)
          /\ c \notin DOMAIN realtime_data_df.rows
          /\ e \in DOMAIN realtime_data_df.rows
          /\ Cardinality(EntriesOf(report, e)) = 1
    /\ \E k \in 1..Len(fetched) : fetched[k].kind = "raise"
    /\ \E k \in 1..Len(scored) : scored[k].outcome.raised

\* the processing of a fetch result raises, and the text of the exception
Raises(result) ==
    \/ result.kind = "raise"
    \/ /\ result.kind = "table" /\ result.rows > 0 /\ result.cols # {}
       /\ \/ ~result.dateOk /\ result.cols \cap {"date_cn", "date"} # {}
          \/ /\ result.cols \cap {"close_cn", "close", "Close"} # {}
             /\ result.cols \cap {"volume_cn", "volume", "Volume"} # {}
             /\ result.rows >= MinRows
             /\ result.taRaise # 0

ErrorText(result) ==
    IF result.kind = "raise" THEN result.err
    ELSE IF ~result.dateOk /\ result.cols \cap {"date_cn", "date"} # {} THEN "date_error"
    ELSE "ta_error"

\* C2: the sweep never raises and ends with exactly one entry per watch-list
\* instrument, in watch-list order; an instrument whose processing raised has
\* status analysis_failed and the exception text as its only signal; every
\* entry is the one its own fetch result determines, whatever happened to
\* the other instruments.
C2_SweepIsolatesFailures ==
    /\ Len(analysis_report) = Len(fetched)
    /\ Len(analysis_report) <= PoolSize
    /\ d_pc = "done" => Len(analysis_report) = PoolSize
    /\ \A k \in 1..Len(analysis_report) :
          /\ analysis_report[k].code = core_pool[k].code
          /\ analysis_report[k].name = core_pool[k].name
          /\ analysis_report[k] = DailyTrendEntry(core_pool[k], fetched[k])
          /\ Raises(fetched[k]) <=>  analysis_report[k].status = "analysis_failed"
          /\ Raises(fetched[k]) =>
                analysis_report[k].technical_indicators_summary
                    = <<St("error", <<>>, ErrorText(fetched[k]))>>

\* a finished sweep in which a fetch raised and a later instrument was analysed
C2_Witness ==
    /\ d_pc = "done"
    /\ \E k \in 1..Len(fetched), m \in 1..Len(fetched) :
          /\ k < m
          /\ fetched[k].kind = "raise"
          /\ analysis_report[k].status = "analysis_failed"
          /\ analysis_report[m].status \in {"sideways", "strong_uptrend"}

FailureComments ==
    {"unknown_error", "llm_service_error", "llm_format_error", "llm_not_configured"}

ScorerFailed(outcome) == outcome.raised \/ outcome.ai_score = NaN

\* C3: whatever the scorer does for one signal, the scoring loop appends one
\* entry per intraday signal; the entry of a signal whose scoring failed has
\* score 0 and a failure comment, every later signal is still scored, and
\* every other entry carries the score and comment the scorer returned.
C3_ScorerFailureIsolated ==
    /\ Len(final_report) = Len(scored)
    /\ Len(final_report) <= Len(intraday_signals)
    /\ PassDone => /\ Len(final_report) = Len(intraday_signals)
                   /\ Len(report) = Len(intraday_signals)
    /\ \A k \in 1..Len(final_report) :
          /\ final_report[k].code = intraday_signals[k].code
          /\ scored[k].code = intraday_signals[k].code
          /\ IF ScorerFailed(scored[k].outcome)
             THEN /\ final_report[k].ai_score = 0
                  /\ final_report[k].ai_comment \in FailureComments
             ELSE /\ final_report[k].ai_score = scored[k].outcome.ai_score[1]
                  /\ final_report[k].ai_comment = scored[k].outcome.ai_comment

\* a finished pass in which the scorer raised for one signal and scored a later one
C3_Witness ==
    /\ PassDone
    /\ \E k \in 1..Len(scored), m \in 1..Len(scored) :
          /\ k < m
          /\ scored[k].outcome.raised
          /\ ~ScorerFailed(scored[m].outcome)
          /\ final_report[m].ai_score = DefaultScore

\* C4, as stated: when the realtime fetch returned nothing the report is the
\* single sentinel entry and the pass made no daily-history call and no
\* scorer call.
C4_NoDownstreamCalls ==
    PassFailed => report = <<Sentinel>> /\ fetched = <<>> /\ scored = <<>>

\* C4, amended: when the realtime fetch returned nothing the report is the
\* single sentinel entry and no scorer call is made in the pass; the
\* daily-trend sweep runs beside the fetch and has by then fetched and
\* analysed every watch-list instrument.
C4_SentinelAfterSweep ==
    /\ PassFailed =>
          /\ report = <<Sentinel>>
          /\ scored = <<>> /\ final_report = <<>>
          /\ Len(fetched) = PoolSize /\ Len(analysis_report) = PoolSize
    /\ (rt_pc = "done" /\ realtime_data_df.kind = "none") =>
          pc \notin {"score", "await_score", "sleep"}

\* a pass that returned the sentinel
C4_Witness ==
    PassFailed /\ report = <<Sentinel>> /\ Len(fetched) = PoolSize

Occurrences(s, x) == Cardinality({k \in 1..Len(s) : s[k] = x})

\* C5: the returned sequence is ordered by score descending (an absent score
\* is the score 0), entries with equal scores keep their watch-list order,
\* and the sequence is a permutation of the entries of the scoring loop.
C5_SortedStablePermutation ==
    PassDone =>
        /\ \A a \in 1..Len(report), b \in 1..Len(report) :
              a < b => /\ report[a].ai_score >= report[b].ai_score
                       /\ report[a].ai_score = report[b].ai_score
                            => PoolIndex(report[a].code) < PoolIndex(report[b].code)
        /\ Len(report) = Len(final_report)
        /\ \A k \in 1..Len(final_report) :
              Occurrences(report, final_report[k]) = Occurrences(final_report, final_report[k])
        /\ \A k \in 1..Len(scored) :
              scored[k].outcome.ai_score = NaN => final_report[k].ai_score = 0

\* a finished pass whose entries the sort reordered, one of them with an absent score
C5_Witness ==
    /\ PassDone
    /\ Len(report) = PoolSize
    /\ report # final_report
    /\ \E k \in 1..Len(scored) : scored[k].outcome.ai_score = NaN

-----------------------------------------------------------------------------
(* Properties of the daily analysis of one series *)

CloseNames == {"close_cn", "close", "Close"}

VolumeNames == {"volume_cn", "volume", "Volume"}

\* a non-empty table whose date column, if it has one, converts
SeriesGiven ==
    /\ t_pc = "done"
    /\ series.kind = "table"
    /\ series.rows > 0 /\ series.cols # {}
    /\ series.dateOk

ShortSeries == SeriesGiven /\ series.rows < MinRows

\* at least 60 rows, and the derivation of the indicators does not raise
LongSeries == SeriesGiven /\ series.rows >= MinRows /\ series.taRaise = 0

HasClose == series.cols \cap CloseNames # {}

HasVolume == series.cols \cap VolumeNames # {}

Summary == trend.technical_indicators_summary

\* C6, as stated: every non-empty series of fewer than 60 rows, also one
\* without a volume column, gets insufficient_data with the 'fewer than 60
\* days' explanation, and no indicator is derived for it.
C6_ShortSeriesInsufficient ==
    ShortSeries =>
        /\ trend.status = "insufficient_data_lt60"
        /\ Summary = <<St("info", <<>>, "fewer_than_60_days")>>
        /\ ta_calls = 0

\* C6, amended: every non-empty series of fewer than 60 rows that has both a
\* close and a volume column gets insufficient_data with the 'fewer than 60
\* days' explanation (one without a close or a volume column gets
\* missing_columns instead); for no series of fewer than 60 rows is an
\* indicator derived.
C6_ShortSeriesWithColumns ==
    /\ (ShortSeries /\ HasClose /\ HasVolume) =>
          /\ trend.status = "insufficient_data_lt60"
          /\ Summary = <<St("info", <<>>, "fewer_than_60_days")>>
    /\ (ShortSeries /\ ~(HasClose /\ HasVolume)) => trend.status = "missing_columns"
    /\ (series.kind = "table" /\ series.rows < MinRows) => ta_calls = 0

\* a series of 59 rows with both columns, analysed
C6_Witness ==
    /\ ShortSeries /\ HasClose /\ HasVolume
    /\ series.rows = MinRows - 1
    /\ trend.status = "insufficient_data_lt60"

TrendStatuses == {"strong_uptrend", "uptrend", "sideways", "downtrend", "strong_downtrend"}

Statements(dim, key) == {k \in 1..Len(Summary) : Summary[k].dim = dim /\ Summary[k].key = key}

One(dim, key) == Cardinality(Statements(dim, key)) = 1

NoneOf(dim) == Statements(dim, <<>>) = {}

\* one statement for every dimension of the rules, and nothing else
CoversEveryDimension ==
    /\ One("stack", <<>>)
    /\ \A n \in {5, 10, 20, 60} : One("price", <<n>>)
    /\ \A pair \in {<<5, 10>>, <<10, 20>>, <<20, 60>>} : One("cross", pair)
    /\ One("slope", <<60>>)
    /\ \/ /\ One("macd_cross", <<>>) /\ One("macd_zero", <<>>) /\ One("macd_hist", <<>>)
          /\ NoneOf("macd")
          /\ Len(Summary) = 13
       \/ /\ One("macd", <<>>)
          /\ NoneOf("macd_cross") /\ NoneOf("macd_zero") /\ NoneOf("macd_hist")
          /\ Len(Summary) = 11
    /\ One("volume", <<>>)

\* C7, as stated: every series of at least 60 rows with a resolvable close
\* column, with or without a volume column, gets one trend status and one
\* statement for every dimension of the rules.
C7_EveryDimensionCovered ==
    (LongSeries /\ HasClose) => trend.status \in TrendStatuses /\ CoversEveryDimension

\* C7, amended: every series of at least 60 rows with both a close and a
\* volume column, on which the date conversion and the indicator derivation
\* do not raise, gets one trend status and exactly one statement for every
\* dimension of the rules, whichever indicator values are null (a series
\* without a volume column gets missing_columns and one explanation).
C7_EveryDimensionCoveredWithVolume ==
    /\ (LongSeries /\ HasClose /\ HasVolume) =>
          trend.status \in TrendStatuses /\ CoversEveryDimension
    /\ (LongSeries /\ HasClose /\ ~HasVolume) =>
          trend.status = "missing_columns" /\ Len(Summary) = 1

\* an analysed series whose MACD cells are incomplete
C7_Witness ==
    /\ LongSeries /\ HasClose /\ HasVolume
    /\ series.latest.MACD = NaN
    /\ series.latest.MACDh # NaN
    /\ Len(Summary) = 11
    /\ trend.status = "sideways"

FullyAnalyzed ==
    /\ LongSeries /\ HasClose /\ HasVolume
    /\ notna(series.latest.close) /\ notna(series.latest.SMA_20) /\ notna(series.latest.SMA_60)

ClaimedStatus(close, sma20, sma60) ==
    IF close > sma20
    THEN IF sma20 > sma60 THEN "strong_uptrend" ELSE "uptrend"
    ELSE IF sma20 < sma60 THEN "strong_downtrend" ELSE "downtrend"

\* C8: a fully analysed series is strong_uptrend when close > SMA_20 > SMA_60,
\* uptrend when close > SMA_20 and SMA_20 <= SMA_60, strong_downtrend when
\* close <= SMA_20 < SMA_60, downtrend when close <= SMA_20 and
\* SMA_20 >= SMA_60.
C8_StatusByMovingAverages ==
    FullyAnalyzed =>
        trend.status = ClaimedStatus(series.latest.close[1], series.latest.SMA_20[1],
                                     series.latest.SMA_60[1])

\* 61 bars, the last close on SMA_20, SMA_20 below SMA_60, both rising
C9_Scenario ==
    /\ FullyAnalyzed
    /\ series.rows = 61
    /\ series.latest.close = series.latest.SMA_20
    /\ Lt(series.latest.SMA_20, series.latest.SMA_60)
    /\ Gt(series.latest.SMA_20, series.prev_latest.SMA_20)
    /\ Gt(series.latest.SMA_60, series.prev_latest.SMA_60)

\* C9, as stated: in that scenario the status is uptrend.
C9_ScenarioIsUptrend == C9_Scenario => trend.status = "uptrend"

\* C9, amended: for a series of 61 bars whose last close equals SMA_20, with
\* SMA_20 below SMA_60 (both rising), the status is strong_downtrend.
C9_ScenarioIsStrongDowntrend == C9_Scenario => trend.status = "strong_downtrend"

\* the scenario, analysed
C9_Witness == C9_Scenario /\ trend.status = "strong_downtrend"

VolumeGiven ==
    /\ LongSeries /\ HasClose /\ HasVolume
    /\ notna(series.latest.volume)
    /\ Gt(series.latest.VOLUME_SMA_60, Zero)

VolumeTexts == {Summary[k].text : k \in Statements("volume", <<>>)}

\* the band the claim gives the ratio v / a
ClaimedBand(v, a) ==
    CASE v >= 2 * a                     -> "significantly_expanded"
      [] 2 * v <= a                     -> "significantly_contracted"
      [] 2 * v >= 3 * a /\ v < 2 * a    -> "expanded"
      [] 2 * v > a /\ 4 * v <= 3 * a    -> "contracted"
      [] OTHER                          -> "normal"

\* the band of the ratio v / a with the thresholds 2.0 and 0.5 in the inner bands
InnerBand(v, a) ==
    CASE v > 2 * a                      -> "significantly_expanded"
      [] 2 * v < a                      -> "significantly_contracted"
      [] 2 * v >= 3 * a /\ v <= 2 * a   -> "expanded"
      [] 2 * v >= a /\ 4 * v <= 3 * a   -> "contracted"
      [] OTHER                          -> "normal"

\* C10, as stated: ratio >= 2.0 is 'significantly expanded', ratio <= 0.5
\* 'significantly contracted', 1.5 <= ratio < 2.0 'expanded', 0.5 < ratio <=
\* 0.75 'contracted', anything else 'normal'; one band for every ratio.
C10_BandsWithOuterBoundaries ==
    VolumeGiven =>
        VolumeTexts = {ClaimedBand(series.latest.volume[1], series.latest.VOLUME_SMA_60[1])}

\* C10, amended: ratio > 2.0 is 'significantly expanded', ratio < 0.5
\* 'significantly contracted', 1.5 <= ratio <= 2.0 'expanded', 0.5 <= ratio
\* <= 0.75 'contracted', anything else 'normal' - the boundary values 2.0 and
\* 0.5 fall in the 'expanded' and 'contracted' bands - and exactly one band
\* is emitted for every ratio.
C10_BandsWithInnerBoundaries ==
    VolumeGiven =>
        /\ One("volume", <<>>)
        /\ VolumeTexts = {InnerBand(series.latest.volume[1], series.latest.VOLUME_SMA_60[1])}

\* a latest volume of exactly twice its average, reported as expanded
C10_Witness ==
    /\ VolumeGiven
    /\ series.latest.volume[1] = 2 * series.latest.VOLUME_SMA_60[1]
    /\ VolumeTexts = {"expanded"}

-----------------------------------------------------------------------------
(* _IntradaySignalGenerator._create_signal_dict on its own: the row and the *)
(* instrument's turnover history are whatever the generator holds when the  *)
(* method is called                                                         *)

\* a cumulative turnover history of n samples: steady steps, then a last one
Ramp(n, step, last) == [k \in 1..n |-> IF k < n THEN k * step ELSE (n - 1) * step + last]

SignalChanges == {0 - SharpMove - 1, 0 - SharpMove, 0, SharpMove, SharpMove + 1}

SignalInit ==
    /\ OrchIdle /\ SweepIdle /\ TrendIdle
    /\ CacheIdle /\ QuoteIdle /\ SendIdle
    /\ sg_pc = "input"
    /\ \E n \in 1..MaxSamples, step \in 0..1, last \in 0..MaxJump, chg \in SignalChanges :
        /\ sg_history = Ramp(n, step, last)
        /\ sg_series = SnapshotRow(1, chg, sg_history[n])
    /\ sg_signal = <<>>

\* lines 312-333
CreateSignal ==
    /\ sg_pc = "input"
    /\ sg_signal' = create_signal_dict(sg_series, core_pool[1], sg_history)
    /\ sg_pc' = "done"
    /\ UNCHANGED <<sg_series, sg_history, orchVars, sweepVars, trendVars,
                   cacheVars, quoteVars, sendVars>>

SignalNext == CreateSignal

SpecSignal == SignalInit /\ [][SignalNext]_vars

-----------------------------------------------------------------------------
(* ak_utils: the realtime providers behind the cache they share             *)
(*                                                                         *)
(* Both providers are decorated with @cached(cache) on the one TTLCache of *)
(* line 14.  A value is [by, kind, at]: the provider that fetched it, what *)
(* it holds ("table", or "none" for the None returned on an exception) and *)
(* the time of the fetch.  An item of the cache is [value, expires].       *)

\* cachetools.keys.hashkey, the default key of @cached: the call's arguments
hashkey(args) == args

\* TTLCache.__getitem__: the item is there and has not expired
Live(k) == k \in DOMAIN cache /\ now < cache[k].expires

\* TTLCache.__setitem__
CacheSet(k, value) ==
    [x \in DOMAIN cache \cup {k} |->
        IF x = k THEN [value |-> value, expires |-> now + CacheExpire] ELSE cache[x]]

\* the wrapper of @cached(cache) around the function of provider p, called
\* without arguments
CachedCall(p) ==
    LET k == hashkey(<<>>)
    IN  IF Live(k)
        THEN /\ returned' = [provider |-> p, value |-> cache[k].value, time |-> now]
             /\ cache' = cache
        ELSE \E kind \in {"table", "none"} :
                LET v == [by |-> p, kind |-> kind, at |-> now]
                IN  /\ cache' = CacheSet(k, v)
                    /\ returned' = [provider |-> p, value |-> v, time |-> now]

\* lines 44-61
get_all_etf_spot_realtime ==
    /\ CachedCall("etf")
    /\ UNCHANGED <<now, orchVars, sweepVars, trendVars, signalVars, quoteVars, sendVars>>

\* lines 78-96
get_all_stock_spot_realtime ==
    /\ CachedCall("stock")
    /\ UNCHANGED <<now, orchVars, sweepVars, trendVars, signalVars, quoteVars, sendVars>>

\* the timer of the cache moves on
Tick ==
    /\ now < MaxTime
    /\ now' = now + 1
    /\ UNCHANGED <<cache, returned, orchVars, sweepVars, trendVars, signalVars, quoteVars,
                   sendVars>>

CacheInit ==
    /\ OrchIdle /\ SweepIdle /\ TrendIdle
    /\ SignalIdle /\ QuoteIdle /\ SendIdle
    /\ now = 0 /\ cache = <<>> /\ returned = <<>>

CacheNext == get_all_etf_spot_realtime \/ get_all_stock_spot_realtime \/ Tick

SpecCache == CacheInit /\ [][CacheNext]_vars

-----------------------------------------------------------------------------
(* ak_utils: the change column of the realtime providers                    *)
(*                                                                         *)
(* A row of the upstream table is [latest, prev_close] of pandas cells; a  *)
(* cell that pd.to_numeric cannot read is NaN.  The change is a fraction   *)
(* [num, den] with den > 0, so that the division loses nothing.            *)

Ratio(num, den) == [num |-> num, den |-> den]

RatioEq(a, b) == a.num * b.den = b.num * a.den

\* the comparisons of analysis.py lines 317-318, SharpMove being in tenths
AboveSharpMove(q) == q.num * 10 > SharpMove * q.den

BelowSharpMove(q) == q.num * 10 < (0 - SharpMove) * q.den

\* lines 50-53 and 84-88: a row with an unreadable number is dropped
Dropped(row) == row.latest = NaN \/ row.prev_close = NaN

\* lines 55-57
EtfChange(latest, prev_close) ==
    IF prev_close # 0 THEN Ratio((latest - prev_close) * 100, prev_close) ELSE Ratio(0, 1)

\* lines 90-92
StockChange(latest, prev_close) ==
    IF prev_close # 0 THEN Ratio(latest - prev_close, prev_close) ELSE Ratio(0, 1)

QuoteRow(row, change) ==
    [latest |-> row.latest[1], prev_close |-> row.prev_close[1], change |-> change]

QuoteInit ==
    /\ OrchIdle /\ SweepIdle /\ TrendIdle
    /\ SignalIdle /\ CacheIdle /\ SendIdle
    /\ q_pc = "input"
    /\ \E latest \in Cell(0..MaxQuote), prev_close \in Cell(0..MaxQuote) :
        quote = [latest |-> latest, prev_close |-> prev_close]
    /\ etf_row = <<>>
    /\ stock_row = <<>>

\* lines 48-58: get_all_etf_spot_realtime on the row
EtfQuote ==
    /\ q_pc \in {"input", "stock"}
    /\ etf_row' = IF Dropped(quote) THEN <<>>
                  ELSE QuoteRow(quote, EtfChange(quote.latest[1], quote.prev_close[1]))
    /\ q_pc' = IF q_pc = "input" THEN "etf" ELSE "both"
    /\ UNCHANGED <<quote, stock_row, orchVars, sweepVars, trendVars, signalVars,
                   cacheVars, sendVars>>

\* lines 82-93: get_all_stock_spot_realtime on the row
StockQuote ==
    /\ q_pc \in {"input", "etf"}
    /\ stock_row' = IF Dropped(quote) THEN <<>>
                    ELSE QuoteRow(quote, StockChange(quote.latest[1], quote.prev_close[1]))
    /\ q_pc' = IF q_pc = "input" THEN "stock" ELSE "both"
    /\ UNCHANGED <<quote, etf_row, orchVars, sweepVars, trendVars, signalVars,
                   cacheVars, sendVars>>

QuoteNext == EtfQuote \/ StockQuote

SpecQuote == QuoteInit /\ [][QuoteNext]_vars

-----------------------------------------------------------------------------
(* bot_handler.send_long_message                                            *)
(*                                                                         *)
(* A text is a sequence of characters; the characters that matter are the  *)
(* line break, another whitespace character and a printing character.      *)

Newline == "\n"

Whitespace == {Newline, " "}

Characters == Whitespace \cup {"a"}

\* text[:n]
Upto(t, n) == SubSeq(t, 1, IF n < Len(t) THEN n ELSE Len(t))

\* text[n:]
From(t, n) == SubSeq(t, n + 1, Len(t))

\* str.rfind: the highest index, counted from 0, at which ch stands, or -1
rfind(t, ch) ==
    LET at == {k \in 1..Len(t) : t[k] = ch}
    IN  IF at = {} THEN 0 - 1 ELSE (CHOOSE k \in at : \A m \in at : m <= k) - 1

\* str.lstrip
RECURSIVE lstrip(_)
lstrip(t) == IF t # <<>> /\ Head(t) \in Whitespace THEN lstrip(Tail(t)) ELSE t

\* lines 19-22
SplitPos(t) ==
    LET split_pos == rfind(Upto(t, PartLimit), Newline)
    IN  IF split_pos = 0 - 1 THEN PartLimit ELSE split_pos

RECURSIVE Texts(_)
Texts(n) ==
    IF n = 0 THEN {<<>>}
    ELSE Texts(n - 1) \cup {Append(t, ch) : t \in {u \in Texts(n - 1) : Len(u) = n - 1},
                                             ch \in Characters}

SendInit ==
    /\ OrchIdle /\ SweepIdle /\ TrendIdle
    /\ SignalIdle /\ CacheIdle /\ QuoteIdle
    /\ s_pc = "start"
    /\ s_input \in Texts(MaxText)
    /\ s_text = s_input
    /\ parts = <<>>
    /\ sent = <<>>

\* lines 12-14
SendWhole ==
    /\ s_pc = "start"
    /\ Len(s_text) <= PartLimit
    /\ sent' = Append(sent, s_text)
    /\ s_pc' = "done"
    /\ UNCHANGED <<s_input, s_text, parts, orchVars, sweepVars, trendVars, signalVars,
                   cacheVars, quoteVars>>

\* lines 12 and 16
EnterLoop ==
    /\ s_pc = "start"
    /\ Len(s_text) > PartLimit
    /\ parts' = <<>>
    /\ s_pc' = "split"
    /\ UNCHANGED <<s_input, s_text, sent, orchVars, sweepVars, trendVars, signalVars,
                   cacheVars, quoteVars>>

\* lines 17-27: one turn of the while loop
SplitStep ==
    /\ s_pc = "split"
    /\ Len(s_text) > 0
    /\ IF Len(s_text) > PartLimit
       THEN LET split_pos == SplitPos(s_text)
            IN  /\ parts' = Append(parts, Upto(s_text, split_pos))
                /\ s_text' = lstrip(From(s_text, split_pos))
                /\ s_pc' = "split"
       ELSE /\ parts' = Append(parts, s_text)
            /\ s_text' = s_text
            /\ s_pc' = "send"
    /\ UNCHANGED <<s_input, sent, orchVars, sweepVars, trendVars, signalVars,
                   cacheVars, quoteVars>>

\* line 17: the text is used up
LoopExit ==
    /\ s_pc = "split"
    /\ Len(s_text) = 0
    /\ s_pc' = "send"
    /\ UNCHANGED <<s_input, s_text, parts, sent, orchVars, sweepVars, trendVars,
                   signalVars, cacheVars, quoteVars>>

\* lines 29-30: one turn of the for loop
SendPart ==
    /\ s_pc = "send"
    /\ Len(sent) < Len(parts)
    /\ sent' = Append(sent, parts[Len(sent) + 1])
    /\ s_pc' = "send"
    /\ UNCHANGED <<s_input, s_text, parts, orchVars, sweepVars, trendVars, signalVars,
                   cacheVars, quoteVars>>

\* line 29: every part has been sent
SendDone ==
    /\ s_pc = "send"
    /\ Len(sent) = Len(parts)
    /\ s_pc' = "done"
    /\ UNCHANGED <<s_input, s_text, parts, sent, orchVars, sweepVars, trendVars,
                   signalVars, cacheVars, quoteVars>>

SendNext == SendWhole \/ EnterLoop \/ SplitStep \/ LoopExit \/ SendPart \/ SendDone

SpecSend == SendInit /\ [][SendNext]_vars

-----------------------------------------------------------------------------
(* Properties of _create_signal_dict *)

TagsOf(points) == {points[k] : k \in 1..Len(points)}

\* C11: the returned tags hold 'sharp intraday gain' exactly when the change is
\* above +2.5 and 'sharp intraday loss' exactly when it is below -2.5, never
\* both; the tag list is never empty, it is exactly ['stable intraday signal']
\* when no other tag applies, and it never holds that tag beside another one.
C11_SharpMoveAndStableTags ==
    sg_pc = "done" =>
        LET points == sg_signal.analysis_points
            tags == TagsOf(points)
            gain == sg_series.change > SharpMove
            loss == sg_series.change < 0 - SharpMove
            spike == VolumeSpike(sg_history)
        IN  /\ "sharp_gain" \in tags <=> gain
            /\ "sharp_loss" \in tags <=> loss
            /\ ~({"sharp_gain", "sharp_loss"} \subseteq tags)
            /\ points # <<>>
            /\ points = <<"stable">> <=> (~gain /\ ~loss /\ ~spike)
            /\ "stable" \in tags => points = <<"stable">>

C11_Witness ==
    /\ sg_pc = "done"
    /\ sg_series.change = SharpMove + 1
    /\ sg_signal.analysis_points = <<"sharp_gain", "volume_spike">>

-----------------------------------------------------------------------------
(* Properties of the daily-history fetch and of the pauses of the loops *)

\* the step in which a fetch whose attempts all failed hands over its outcome
AllAttemptsFailed == d_pc = "failed" /\ attempt = StopAfterAttempt

\* C12: when every attempt of an instrument's daily-history fetch fails, the
\* fetch is attempted at most 3 times, the final failure reaches the analyzer
\* as null and not as an exception, and the instrument gets the same
\* insufficient_data status as for a null or empty table.
C12_ExhaustedFetchIsNull ==
    /\ [](attempt <= StopAfterAttempt)
    /\ [][AllAttemptsFailed =>
            /\ fetched' = Append(fetched, NoneResult)
            /\ analysis_report'[Len(analysis_report')].status =
                   DailyTrendEntry(core_pool[d_idx], NoneResult).status]_vars

\* C13: in the daily sweep and in the scoring loop the calls are strictly
\* sequential, at most one in flight per loop, and a pause lies between every
\* two consecutive calls, whatever the earlier call produced: when the outcome
\* of a call is in, the loop goes to its pause (or is over) and never stands
\* at the next call.
C13_PauseBetweenCalls ==
    /\ [](d_pc \in {"await", "failed"} => Len(fetched) = d_idx - 1)
    /\ [](pc = "await_score" => Len(scored) = i - 1)
    /\ [][Len(fetched') > Len(fetched) => d_pc' # "call"]_vars
    /\ [][Len(scored') > Len(scored) => pc' # "score"]_vars

-----------------------------------------------------------------------------
(* Properties of the join of generate_ai_driven_report *)

\* the pass is past the join of line 30
SignalsDerived ==
    \/ pc \in {"score", "await_score", "sleep"}
    \/ intraday_signals # <<>>
    \/ scored # <<>>

\* C14: in every interleaving of the realtime fetch and the daily sweep, no
\* intraday signal is derived and no scorer call is made before both have
\* completed; when a scorer call starts, the daily-trend lookup holds the
\* result of every watch-list instrument.
C14_JoinBeforeSignals ==
    /\ SignalsDerived =>
        /\ rt_pc = "done"
        /\ d_pc = "done"
        /\ Len(analysis_report) = PoolSize
    /\ pc = "await_score" =>
        \A k \in 1..PoolSize :
            /\ DailyTrendOf(analysis_report, core_pool[k].code) # UnknownTrend
            /\ DailyTrendOf(analysis_report, core_pool[k].code) =
                   DailyTrendEntry(core_pool[k], fetched[k])

C14_Witness ==
    /\ pc = "await_score"
    /\ i = 1
    /\ scored = <<>>
    /\ Len(analysis_report) = PoolSize

-----------------------------------------------------------------------------
(* Properties of the realtime providers *)

\* C15: a call of one realtime provider returns either a value that the same
\* provider fetched within the last TTL seconds or a fresh fetch by that
\* provider, and never a value fetched and cached by the other provider.
C15_OwnProviderOnly ==
    returned # <<>> =>
        /\ returned.value.by = returned.provider
        /\ returned.time - returned.value.at < CacheExpire

-----------------------------------------------------------------------------
(* Properties of the rolling turnover history over several passes *)

\* the entries of a list that carry intraday tags
Tagged(s) == {k \in 1..Len(s) : "analysis_points" \in DOMAIN s[k]}

NoSpikeIn(s) == \A k \in Tagged(s) : "volume_spike" \notin TagsOf(s[k].analysis_points)

\* C16: for a watch-list with distinct codes, in any sequence of passes, the
\* rolling turnover history of every instrument holds at most one sample when
\* its tags are computed, because the generator is built anew in every pass;
\* so 'abnormal volume spike', which needs more than 5 samples, appears in no
\* signal and in no report entry.
C16_HistoryHoldsOneSample ==
    /\ \A c \in DOMAIN volume_history : Len(volume_history[c]) <= 1
    /\ NoSpikeIn(intraday_signals)
    /\ NoSpikeIn(final_report)
    /\ NoSpikeIn(report)

C16_Witness ==
    /\ passes = MaxPasses
    /\ PassDone
    /\ Len(report) = PoolSize
    /\ \A c \in Codes : Len(volume_history[c]) = 1

\* (latest - prev_close) / prev_close * 100 for a previous close other than 0,
\* else 0
PercentChange(row) ==
    IF row.prev_close # 0 THEN Ratio((row.latest - row.prev_close) * 100, row.prev_close)
    ELSE Ratio(0, 1)

\* C17: the ETF provider and the stock provider compute the change of a row
\* by the same function, (latest - prev_close) / prev_close * 100 when the
\* previous close is not 0 and 0 otherwise, so the thresholds of +2.5 and
\* -2.5 mean 2.5 percent for both pools.
C17_SameChangeFunction ==
    q_pc = "both" =>
        /\ etf_row = <<>> <=> stock_row = <<>>
        /\ etf_row # <<>> =>
            /\ RatioEq(etf_row.change, PercentChange(etf_row))
            /\ RatioEq(stock_row.change, PercentChange(stock_row))
            /\ AboveSharpMove(etf_row.change) <=> AboveSharpMove(stock_row.change)
            /\ BelowSharpMove(etf_row.change) <=> BelowSharpMove(stock_row.change)

-----------------------------------------------------------------------------
(* Properties of send_long_message *)

RECURSIVE Flatten(_)
Flatten(ss) == IF ss = <<>> THEN <<>> ELSE Head(ss) \o Flatten(Tail(ss))

\* the characters of a stand in t in their order, other characters between
RECURSIVE IsSubsequence(_, _)
IsSubsequence(a, t) ==
    IF a = <<>> THEN TRUE
    ELSE IF t = <<>> THEN FALSE
    ELSE IF Head(a) = Head(t) THEN IsSubsequence(Tail(a), Tail(t))
    ELSE IsSubsequence(a, Tail(t))

\* C18: for every input text send_long_message ends after finitely many
\* parts (every turn of the loop uses up a character, so there are never more
\* parts than characters), every part passed to reply_text is non-empty and
\* at most 4096 characters long, and the parts are sent in the order in which
\* they occur in the text.
C18_PartsNonEmptyBoundedOrdered ==
    /\ Len(parts) <= Len(s_input)
    /\ \A k \in 1..Len(sent) : Len(sent[k]) > 0 /\ Len(sent[k]) <= PartLimit
    /\ s_pc \in {"send", "done"} /\ parts # <<>> => sent = SubSeq(parts, 1, Len(sent))
    /\ IsSubsequence(Flatten(sent), s_input)

====
